---- MODULE Spec2Model ----
(***************************************************************************)
(* ManoLayer (src/manotorch/manolayer.py): the MANO hand model's forward   *)
(* map from pose and shape parameters to vertices, joints and absolute     *)
(* joint transforms.                                                       *)
(*                                                                         *)
(* Numbers.  Real values are integers (exact arithmetic, no rounding).     *)
(* Axis-angle components are counted in quarter turns (1 = pi/2), so the   *)
(* exponential map of an axis-aligned vector is an integer matrix.  A      *)
(* skinning weight is a numerator over WeightDen.  Tensors are functions   *)
(* over 0-based index ranges, as torch indexes them; the vertex dimension  *)
(* is indexed by vertex id, over the ids in VertexIds.                     *)
(***************************************************************************)
EXTENDS FiniteSets, Integers, Sequences, TLC

VARIABLES constructed, ctor, self, buffers, warned, pc, args, loc, out, prev_failed

vars == <<constructed, ctor, self, buffers, warned, pc, args, loc, out, prev_failed>>

(***************************************************************************)
(* Bounds of the model.                                                    *)
(***************************************************************************)
\* vertices 0 .. NumLowVerts-1 are carried besides the fingertip vertices
NumLowVerts == 1
\* shape coefficients of the asset
NumBetas == 2
\* a call's batch sizes range over 1 .. MaxBatch
MaxBatch == 2
\* a shape coefficient ranges over 0 .. MaxBeta
MaxBeta == 1
\* a joint's rotation is 0 .. MaxTurn turns of the generator of its level
MaxTurn == 1
\* the PCA components a configuration selects
NumComps == 2

(***************************************************************************)
(* Dimensions the source fixes.                                            *)
(***************************************************************************)
NumJoints == 16
\* weights are numerators over WeightDen: a row that sums to WeightDen sums to 1
WeightDen == 2

Idx(n) == 0 .. (n - 1)

\* A tensor holds its elements; TLC would otherwise keep a function
\* constructor unevaluated and evaluate an element again at every use.
Tensor(f) == f @@ << >>

Size(t) == Cardinality(DOMAIN t)

RECURSIVE SumRange(_, _, _)
\* f[lo] + ... + f[hi-1], halving the range
SumRange(f, lo, hi) ==
    IF hi <= lo THEN 0
    ELSE IF hi = lo + 1 THEN f[lo]
    ELSE LET mid == (lo + hi) \div 2 IN SumRange(f, lo, mid) + SumRange(f, mid, hi)

\* f[0] + ... + f[n-1]
SumTo(f, n) == SumRange(f, 0, n)

RECURSIVE SumSet(_, _)
\* the sum of f over the index set S
SumSet(f, S) ==
    IF S = {} THEN 0
    ELSE LET x == CHOOSE y \in S : TRUE IN f[x] + SumSet(f, S \ {x})

Vec3(x, y, z) == Tensor([c \in Idx(3) |-> IF c = 0 THEN x ELSE IF c = 1 THEN y ELSE z])
Zero3 == Vec3(0, 0, 0)
eye3 == Tensor([r \in Idx(3) |-> Tensor([c \in Idx(3) |-> IF r = c THEN 1 ELSE 0])])

\* torch.matmul of two matrices
matmul(A, B) ==
    Tensor([r \in DOMAIN A |-> Tensor([c \in DOMAIN B[0] |->
        SumTo([k \in DOMAIN B |-> A[r][k] * B[k][c]], Size(B))])])

\* a Python list literal, 0-based
List(s) == Tensor([i \in Idx(Len(s)) |-> s[i + 1]])

\* torch.cat of two vectors along their only dimension
cat(a, b) ==
    Tensor([i \in Idx(Size(a) + Size(b)) |-> IF i < Size(a) THEN a[i] ELSE b[i - Size(a)]])

(***************************************************************************)
(* The asset files, as ready_arguments returns them.                       *)
(***************************************************************************)
RightTips == <<745, 317, 444, 556, 673>>
LeftTips == <<745, 317, 445, 556, 673>>

VertexIds ==
    Idx(NumLowVerts) \cup {RightTips[i] : i \in 1..5} \cup {LeftTips[i] : i \in 1..5}

Rank(v) == Cardinality({u \in VertexIds : u < v})
NumSampled == Cardinality(VertexIds)

Mirror(side) == IF side = "right" THEN 1 ELSE -1

AssetRoots == {"assets/mano", "assets/unnormalised"}
Sides == {"left", "right"}

\* MANO's kintree_table[0]; the root has no parent, written -1
kintree_parents ==
    Tensor([j \in Idx(NumJoints) |->
        IF j = 0 THEN -1 ELSE IF j % 3 = 1 THEN 0 ELSE j - 1])

ready_arguments(root, side) ==
    [ betas |-> Tensor([s \in Idx(NumBetas) |-> 0]),
      shapedirs |-> Tensor([v \in VertexIds |-> Tensor([c \in Idx(3) |->
          Tensor([s \in Idx(NumBetas) |-> 2 * (((Rank(v) + c + 2 * s) % 3) - 1)])])]),
      posedirs |-> Tensor([v \in VertexIds |-> Tensor([c \in Idx(3) |->
          Tensor([p \in Idx(9 * (NumJoints - 1)) |->
              2 * (((Rank(v) + 2 * c + p * p + (p \div 9) * (p \div 9)) % 3) - 1)])])]),
      v_template |-> Tensor([v \in VertexIds |->
          Vec3(Mirror(side) * 2 * (Rank(v) + 1),
               2 * ((3 * Rank(v)) % 5) - 4,
               2 * ((Rank(v) * Rank(v)) % 7) - 6)]),
      J_regressor |-> Tensor([j \in Idx(NumJoints) |-> Tensor([v \in VertexIds |->
          (IF Rank(v) = j % NumSampled THEN 2 ELSE 0)
          + (IF Rank(v) = (j + 1 + (j \div NumSampled)) % NumSampled THEN 1 ELSE 0)])]),
      weights |-> Tensor([v \in VertexIds |-> Tensor([k \in Idx(NumJoints) |->
          (IF k = (3 * Rank(v) + 1) % NumJoints THEN 1 ELSE 0)
          + (IF k = (5 * Rank(v) + 2) % NumJoints THEN 1 ELSE 0)
          + (IF root = "assets/unnormalised" /\ k = 0 THEN 2 ELSE 0)])]),
      f |-> <<Vec3(0, 1, 2)>>,
      kintree_table |-> List(<<kintree_parents, Tensor([j \in Idx(NumJoints) |-> j])>>),
      hands_components |-> Tensor([n \in Idx(3 * (NumJoints - 1)) |->
          Tensor([i \in Idx(3 * (NumJoints - 1)) |->
              IF i % 3 = 0 /\ ((i \div 3) + n) % 2 = 0 THEN 1 ELSE 0])]),
      hands_mean |-> Tensor([i \in Idx(3 * (NumJoints - 1)) |->
          IF i = 3 THEN 1 ELSE IF i = 15 THEN 2 ELSE 0]) ]

(***************************************************************************)
(* Rotation parameterizations.                                             *)
(***************************************************************************)
\* cos and sin of n quarter turns
CosQ(n) == IF n % 4 = 0 THEN 1 ELSE IF n % 4 = 2 THEN -1 ELSE 0
SinQ(n) == IF n % 4 = 1 THEN 1 ELSE IF n % 4 = 3 THEN -1 ELSE 0

\* the cross-product matrix [k]x
Skew(k) ==
    Tensor([r \in Idx(3) |-> Tensor([c \in Idx(3) |->
        IF r = c THEN 0
        ELSE IF (r + 1) % 3 = c THEN -k[(r + 2) % 3] ELSE k[(r + 1) % 3]])])

\* the axis-angle vectors whose rotation matrix is an integer matrix
InExpDomain(a) == Cardinality({c \in Idx(3) : a[c] # 0}) <= 1

\* lietorch.SO3.exp(a).matrix()[:3, :3] by Rodrigues' formula, for a turn of
\* a[0] + a[1] + a[2] quarter turns about the coordinate axis a lies on
SO3Exp(a) ==
    LET n == a[0] + a[1] + a[2]
        k == Vec3(IF a[0] # 0 THEN 1 ELSE 0, IF a[1] # 0 THEN 1 ELSE 0, IF a[2] # 0 THEN 1 ELSE 0)
        K == Skew(k)
        KK == matmul(K, K)
    IN  Tensor([r \in Idx(3) |-> Tensor([c \in Idx(3) |->
            eye3[r][c] + SinQ(n) * K[r][c] + (1 - CosQ(n)) * KK[r][c]])])

\* self.th_hands_mean + full_hand_pose, (B, 45)
HandPose(bufs, slf, pose_coeffs) ==
    LET hand_pose_coeffs == Tensor([b \in DOMAIN pose_coeffs |->
            Tensor([i \in Idx(Size(pose_coeffs[b]) - slf.rot_dim) |->
                pose_coeffs[b][slf.rot_dim + i]])])
        full_hand_pose ==
            IF slf.use_pca
            THEN Tensor([b \in DOMAIN pose_coeffs |->
                Tensor([i \in DOMAIN bufs.th_selected_comps[0] |->
                    SumTo([n \in DOMAIN bufs.th_selected_comps |->
                              hand_pose_coeffs[b][n] * bufs.th_selected_comps[n][i]],
                          Size(bufs.th_selected_comps))])])
            ELSE hand_pose_coeffs
    IN  Tensor([b \in DOMAIN pose_coeffs |-> Tensor([i \in DOMAIN full_hand_pose[b] |->
            bufs.th_hands_mean[i] + full_hand_pose[b][i]])])

\* full_poses = torch.cat([root_pose_coeffs, th_hands_mean + full_hand_pose], 1)
FullPoses(bufs, slf, pose_coeffs) ==
    LET hand == HandPose(bufs, slf, pose_coeffs)
    IN  Tensor([b \in DOMAIN pose_coeffs |->
            cat(Tensor([i \in Idx(slf.rot_dim) |-> pose_coeffs[b][i]]), hand[b])])

rotation_by_axisang(bufs, slf, pose_coeffs) ==
    LET batch_size == Size(pose_coeffs)
        full_poses == FullPoses(bufs, slf, pose_coeffs)
        \* full_poses.view(-1, 3): row n is joint n % 16 of batch item n \div 16
        pose_vec_reshaped == Tensor([n \in Idx(batch_size * NumJoints) |->
            Tensor([c \in Idx(3) |-> full_poses[n \div NumJoints][3 * (n % NumJoints) + c]])])
        rot_mats == Tensor([n \in DOMAIN pose_vec_reshaped |-> SO3Exp(pose_vec_reshaped[n])])
        full_rots == Tensor([b \in Idx(batch_size) |-> Tensor([j \in Idx(NumJoints) |->
            rot_mats[b * NumJoints + j]])])
    IN  [full_rots |-> full_rots, full_poses |-> full_poses]

\* a unit quaternion (w, x, y, z) to its rotation matrix
quaternion_to_rotation_matrix(q) ==
    LET w == q[0]  x == q[1]  y == q[2]  z == q[3]
    IN  Tensor([r \in Idx(3) |-> Tensor([c \in Idx(3) |->
            CASE r = 0 /\ c = 0 -> 1 - 2 * (y * y + z * z)
              [] r = 0 /\ c = 1 -> 2 * (x * y - z * w)
              [] r = 0 /\ c = 2 -> 2 * (x * z + y * w)
              [] r = 1 /\ c = 0 -> 2 * (x * y + z * w)
              [] r = 1 /\ c = 1 -> 1 - 2 * (x * x + z * z)
              [] r = 1 /\ c = 2 -> 2 * (y * z - x * w)
              [] r = 2 /\ c = 0 -> 2 * (x * z - y * w)
              [] r = 2 /\ c = 1 -> 2 * (y * z + x * w)
              [] OTHER -> 1 - 2 * (x * x + y * y)])])

\* a unit quaternion with integer components to its axis-angle vector:
\* angle 2 atan2(|v|, w) about v / |v|, the zero vector when v = 0
quaternion_to_angle_axis(q) ==
    IF q[1] = 0 /\ q[2] = 0 /\ q[3] = 0 THEN Zero3
    ELSE Vec3(2 * q[1], 2 * q[2], 2 * q[3])

rotation_by_quaternion(bufs, slf, pose_coeffs) ==
    LET batch_size == Size(pose_coeffs)
        \* pose_coeffs.view(batch_size, 16, 4)
        full_quat_poses == Tensor([b \in Idx(batch_size) |-> Tensor([j \in Idx(NumJoints) |->
            Tensor([c \in Idx(4) |-> pose_coeffs[b][4 * j + c]])])])
        full_rots == Tensor([b \in Idx(batch_size) |-> Tensor([j \in Idx(NumJoints) |->
            quaternion_to_rotation_matrix(full_quat_poses[b][j])])])
        aa == Tensor([b \in Idx(batch_size) |-> Tensor([j \in Idx(NumJoints) |->
            quaternion_to_angle_axis(full_quat_poses[b][j])])])
        full_poses == Tensor([b \in Idx(batch_size) |-> Tensor([i \in Idx(3 * NumJoints) |->
            aa[b][i \div 3][i % 3]])])
    IN  [full_rots |-> full_rots, full_poses |-> full_poses]

rotation_layer(bufs, slf, pose_coeffs) ==
    IF slf.rot_mode = "axisang" THEN rotation_by_axisang(bufs, slf, pose_coeffs)
    ELSE rotation_by_quaternion(bufs, slf, pose_coeffs)

(***************************************************************************)
(* skinning_layer, one operator per section of the method.                 *)
(***************************************************************************)
\* B_S = matmul(th_shapedirs, betas.transpose(1, 0)).permute(2, 0, 1)
ShapeBlend(bufs, betas) ==
    Tensor([b \in DOMAIN betas |-> Tensor([v \in DOMAIN bufs.th_shapedirs |->
        Tensor([c \in Idx(3) |->
            SumTo([s \in DOMAIN betas[b] |-> bufs.th_shapedirs[v][c][s] * betas[b][s]],
                  Size(betas[b]))])])])

\* J = matmul(th_J_regressor, th_v_template + B_S)
JointRegress(bufs, B_S) ==
    Tensor([b \in DOMAIN B_S |-> Tensor([j \in DOMAIN bufs.th_J_regressor |->
        Tensor([c \in Idx(3) |->
            SumSet([v \in DOMAIN bufs.th_v_template |->
                       bufs.th_J_regressor[j][v] * (bufs.th_v_template[v][c] + B_S[b][v][c])],
                   DOMAIN bufs.th_v_template)])])])

\* the pose blend shape of the rotations themselves, flat_rot not subtracted
PoseBlendRaw(bufs, full_rots) ==
    LET batch_size == Size(full_rots)
        n_hand == Size(full_rots[0]) - 1
    IN  Tensor([b \in Idx(batch_size) |-> Tensor([v \in DOMAIN bufs.th_posedirs |->
            Tensor([c \in Idx(3) |->
                SumTo([p \in Idx(n_hand * 9) |->
                          bufs.th_posedirs[v][c][p]
                          * full_rots[b][1 + (p \div 9)][(p % 9) \div 3][p % 3]],
                      n_hand * 9)])])])

\* B_P = matmul(th_posedirs, (hand_rot - flat_rot).reshape(B, 15 * 9).transpose(0, 1))
PoseBlend(bufs, full_rots) ==
    LET batch_size == Size(full_rots)
        n_hand == Size(full_rots[0]) - 1
        rot_minus_mean_flat == Tensor([b \in Idx(batch_size) |->
            Tensor([p \in Idx(n_hand * 9) |->
                full_rots[b][1 + (p \div 9)][(p % 9) \div 3][p % 3]
                - eye3[(p % 9) \div 3][p % 3]])])
    IN  Tensor([b \in Idx(batch_size) |-> Tensor([v \in DOMAIN bufs.th_posedirs |->
            Tensor([c \in Idx(3) |->
                SumTo([p \in Idx(n_hand * 9) |->
                          bufs.th_posedirs[v][c][p] * rot_minus_mean_flat[b][p]],
                      n_hand * 9)])])])

\* torch's broadcast of two batch dimensions
Broadcastable(n, m) == n = m \/ n = 1 \/ m = 1
BroadcastSize(n, m) == IF n = 1 THEN m ELSE n

\* T_P = th_v_template + B_S + B_P
PoseShapeTemplate(bufs, B_S, B_P) ==
    Tensor([b \in Idx(BroadcastSize(Size(B_S), Size(B_P))) |->
        Tensor([v \in DOMAIN bufs.th_v_template |-> Tensor([c \in Idx(3) |->
            bufs.th_v_template[v][c]
            + B_S[IF Size(B_S) = 1 THEN 0 ELSE b][v][c]
            + B_P[IF Size(B_P) = 1 THEN 0 ELSE b][v][c]])])])

th_with_zeros(tensor) ==
    LET padding == List(<<0, 0, 0, 1>>)
    IN  Tensor([n \in DOMAIN tensor |->
            Tensor([r \in Idx(4) |-> IF r < 3 THEN tensor[n][r] ELSE padding])])

\* torch.cat([rot, j], last dim) of a 3x3 block and a 3x1 column
cat_rt(rot, j) ==
    Tensor([r \in Idx(3) |-> Tensor([c \in Idx(4) |-> IF c < 3 THEN rot[r][c] ELSE j[r]])])

lev1_idxs == List(<<1, 4, 7, 10, 13>>)
lev2_idxs == List(<<2, 5, 8, 11, 14>>)
lev3_idxs == List(<<3, 6, 9, 12, 15>>)

reorder_idxs == List(<<0, 1, 6, 11, 2, 7, 12, 3, 8, 13, 4, 9, 14, 5, 10, 15>>)

\* a view that only needs enough elements for batch_size roots
RootViewEnough(full_rots, J) == Size(J) * 3 >= Size(full_rots) * 3

\* J[:, 0, :].contiguous().view(batch_size, 3, 1) needs as many elements as it has
RootViewOK(full_rots, J) == Size(J) * 3 = Size(full_rots) * 3

\* th_with_zeros(torch.cat([rots, j_rel.unsqueeze(3)], 3).view(-1, 3, 4)):
\* flat row f is finger f % 5 of batch item f \div 5
rel_transform_flt(rots, j_rel) ==
    th_with_zeros(Tensor([f \in Idx(Size(rots) * 5) |->
        cat_rt(rots[f \div 5][f % 5], j_rel[f \div 5][f % 5])]))

\* the roots tiled instead: root_transf.repeat(5, 1, 1)
root_trans_tiled(root_transf) ==
    Tensor([f \in Idx(Size(root_transf) * 5) |-> root_transf[f % Size(root_transf)]])

\* root_transf.unsqueeze(1).repeat(1, 5, 1, 1).view(B * 5, 4, 4)
root_trans_flt(root_transf) ==
    Tensor([f \in Idx(Size(root_transf) * 5) |-> root_transf[f \div 5]])

\* the product taken with the local transform on the left
bmm_swapped(X, Y) == Tensor([f \in DOMAIN X |-> matmul(Y[f], X[f])])

\* torch.matmul of two batches of matrices
bmm(X, Y) == Tensor([f \in DOMAIN X |-> matmul(X[f], Y[f])])

\* G_k: the absolute transform of every joint, lines 153-191
KinematicChain(full_rots, J) ==
    LET batch_size == Size(full_rots)
        B == Idx(batch_size)
        root_j == Tensor([b \in B |-> Tensor([r \in Idx(3) |->
            J[(3 * b + r) \div 3][0][(3 * b + r) % 3]])])
        root_transf == th_with_zeros(Tensor([b \in B |-> cat_rt(full_rots[b][0], root_j[b])]))
        lev_rots(idxs) == Tensor([b \in B |-> Tensor([i \in Idx(5) |->
            full_rots[b][1 + (idxs[i] - 1)]])])
        lev_j(idxs) == Tensor([b \in B |-> Tensor([i \in Idx(5) |-> J[b][idxs[i]]])])
        lev1_j == lev_j(lev1_idxs)
        lev2_j == lev_j(lev2_idxs)
        lev3_j == lev_j(lev3_idxs)
        lev1_j_rel == Tensor([b \in B |-> Tensor([i \in Idx(5) |-> Tensor([c \in Idx(3) |->
            lev1_j[b][i][c] - root_j[b][c]])])])
        lev1_flt == bmm(root_trans_flt(root_transf),
                        rel_transform_flt(lev_rots(lev1_idxs), lev1_j_rel))
        lev2_j_rel == Tensor([b \in B |-> Tensor([i \in Idx(5) |-> Tensor([c \in Idx(3) |->
            lev2_j[b][i][c] - lev1_j[b][i][c]])])])
        lev2_flt == bmm(lev1_flt, rel_transform_flt(lev_rots(lev2_idxs), lev2_j_rel))
        lev3_j_rel == Tensor([b \in B |-> Tensor([i \in Idx(5) |-> Tensor([c \in Idx(3) |->
            lev3_j[b][i][c] - lev2_j[b][i][c]])])])
        lev3_flt == bmm(lev2_flt, rel_transform_flt(lev_rots(lev3_idxs), lev3_j_rel))
        \* torch.cat(all_transforms, 1), each level viewed as (B, 5, 4, 4)
        all_transforms == Tensor([b \in B |-> Tensor([n \in Idx(16) |->
            IF n = 0 THEN root_transf[b]
            ELSE IF n < 6 THEN lev1_flt[5 * b + (n - 1)]
            ELSE IF n < 11 THEN lev2_flt[5 * b + (n - 6)]
            ELSE lev3_flt[5 * b + (n - 11)]])])
    IN  Tensor([b \in B |-> Tensor([j \in DOMAIN reorder_idxs |->
            all_transforms[b][reorder_idxs[j]]])])

\* verts of lines 193-211: G'_k, the blended T and its product with T_P
Skin(bufs, G_k, J, T_P) ==
    LET batch_size == Size(G_k)
        B == Idx(batch_size)
        joint_js == Tensor([b \in B |-> Tensor([j \in Idx(16) |->
            Tensor([c \in Idx(4) |-> IF c < 3 THEN J[b][j][c] ELSE 0])])])
        tmp2 == Tensor([b \in B |-> Tensor([j \in Idx(16) |-> Tensor([r \in Idx(4) |->
            SumTo([c \in Idx(4) |-> G_k[b][j][r][c] * joint_js[b][j][c]], 4)])])])
        G_prime_k == Tensor([b \in B |-> Tensor([r \in Idx(4) |-> Tensor([c \in Idx(4) |->
            Tensor([k \in Idx(16) |->
                G_k[b][k][r][c] - (IF c < 3 THEN 0 ELSE tmp2[b][k][r])])])])])
        T == Tensor([b \in B |-> Tensor([r \in Idx(4) |-> Tensor([c \in Idx(4) |->
            Tensor([v \in DOMAIN bufs.th_weights |->
                SumTo([k \in Idx(16) |-> G_prime_k[b][r][c][k] * bufs.th_weights[v][k]],
                      16)])])])])
        T_P_homo == Tensor([b \in B |-> Tensor([c \in Idx(4) |->
            Tensor([v \in DOMAIN T_P[b] |-> IF c < 3 THEN T_P[b][v][c] ELSE 1])])])
    IN  Tensor([b \in B |-> Tensor([v \in DOMAIN bufs.th_weights |->
            Tensor([r \in Idx(3) |->
                SumTo([c \in Idx(4) |-> T[b][r][c][v] * T_P_homo[b][c][v]], 4)
                \div WeightDen])])])

\* the left hand's tips on either side
TipIdxsLeft(slf) == List(LeftTips)

\* verts[:, [745, 317, 444, 556, 673]], or the left hand's
TipIdxs(slf) == IF slf.side = "right" THEN List(RightTips) ELSE List(LeftTips)

snap_order ==
    List(<<0, 13, 14, 15, 16, 1, 2, 3, 17, 4, 5, 6, 18, 10, 11, 12, 19, 7, 8, 9, 20>>)

\* the table read as native slot -> output position: joints[:, table] = joints
reorder_joints_scatter(joints) ==
    Tensor([b \in DOMAIN joints |-> Tensor([p \in DOMAIN snap_order |->
        joints[b][CHOOSE i \in DOMAIN snap_order : snap_order[i] = p]])])

\* joints[:, [0, 13, ...]]
reorder_joints(joints) ==
    Tensor([b \in DOMAIN joints |-> Tensor([p \in DOMAIN snap_order |->
        joints[b][snap_order[p]]])])

\* the 16 joints of th_transf_global and the 5 tips, lines 210-221
NativeJoints(slf, G_k, verts) ==
    Tensor([b \in DOMAIN G_k |-> Tensor([n \in Idx(16 + 5) |->
        IF n < 16 THEN Tensor([c \in Idx(3) |-> G_k[b][n][c][3]])
        ELSE verts[b][TipIdxs(slf)[n - 16]]])])

\* whether joints[:, i] is an element of a dimension of size n
IndexOK(i, n) == -n <= i /\ i < n

\* the index looked up in the joints before their reordering
PyIndexNative(i, n) == snap_order[IF i < 0 THEN i + n ELSE i]

\* a negative index counts from the end
PyIndex(i, n) == IF i < 0 THEN i + n ELSE i

\* center_joint, (B, 1, 3), lines 234-237
CenterJoint(slf, joints) ==
    IF slf.center_idx # {}
    THEN LET i == CHOOSE c \in slf.center_idx : TRUE
         IN  Tensor([b \in DOMAIN joints |->
                 Tensor([u \in Idx(1) |-> joints[b][PyIndex(i, Size(joints[b]))]])])
    ELSE Tensor([b \in DOMAIN joints |-> Tensor([u \in Idx(1) |-> Zero3])])

\* x - center_joint for x of shape (B, N, 3)
Shift(x, center_joint) ==
    Tensor([b \in DOMAIN x |-> Tensor([n \in DOMAIN x[b] |-> Tensor([c \in Idx(3) |->
        x[b][n][c] - center_joint[b][0][c]])])])

\* the transforms returned without the shift
CenterTransformsKept(th_transf_global, center_joint) == th_transf_global

\* global_transf, lines 244-249
CenterTransforms(th_transf_global, center_joint) ==
    LET batch_size == Size(th_transf_global)
        global_transf == Tensor([n \in Idx(batch_size * 16) |->
            Tensor([r \in Idx(3) |-> Tensor([c \in Idx(4) |->
                IF c < 3 THEN th_transf_global[n \div 16][n % 16][r][c]
                ELSE th_transf_global[n \div 16][n % 16][r][3]
                     - center_joint[n \div 16][0][r]])])])
        padded == th_with_zeros(global_transf)
    IN  Tensor([b \in Idx(batch_size) |-> Tensor([j \in Idx(16) |-> padded[16 * b + j]])])

(***************************************************************************)
(* skinning_layer and forward as functions of the instance and the inputs. *)
(***************************************************************************)
\* whether joints[:, self.center_idx] raises IndexError
CenterIndexError(slf, joints) ==
    slf.center_idx # {} /\ \E c \in slf.center_idx : ~IndexOK(c, Size(joints[0]))

\* skinning_blob, lines 234-256
Centered(slf, verts, joints, th_transf_global) ==
    LET center_joint == CenterJoint(slf, joints)
    IN  [verts |-> Shift(verts, center_joint),
         joints |-> Shift(joints, center_joint),
         center_joint |-> center_joint,
         transforms_abs |-> CenterTransforms(th_transf_global, center_joint)]

skinning_layer(bufs, slf, full_rots, betas) ==
    LET B_S == ShapeBlend(bufs, betas)
        J == JointRegress(bufs, B_S)
        B_P == PoseBlend(bufs, full_rots)
    IN  IF ~Broadcastable(Size(B_S), Size(B_P)) THEN [status |-> "RuntimeError"]
        ELSE IF ~RootViewOK(full_rots, J) THEN [status |-> "RuntimeError"]
        ELSE LET T_P == PoseShapeTemplate(bufs, B_S, B_P)
                 G_k == KinematicChain(full_rots, J)
                 verts == Skin(bufs, G_k, J, T_P)
                 joints == reorder_joints(NativeJoints(slf, G_k, verts))
             IN  IF CenterIndexError(slf, joints) THEN [status |-> "IndexError"]
                 ELSE [status |-> "ok"] @@ Centered(slf, verts, joints, G_k)

MANOOutput(slf, rot_blob, skinning_blob, betas) ==
    [status |-> "ok",
     verts |-> skinning_blob.verts,
     joints |-> skinning_blob.joints,
     center_idx |-> slf.center_idx,
     center_joint |-> skinning_blob.center_joint,
     full_poses |-> rot_blob.full_poses,
     betas |-> betas,
     transforms_abs |-> skinning_blob.transforms_abs]

forward(bufs, slf, pose_coeffs, betas) ==
    LET rot_blob == rotation_layer(bufs, slf, pose_coeffs)
        skinning_blob == skinning_layer(bufs, slf, rot_blob.full_rots, betas)
    IN  IF skinning_blob.status = "ok"
        THEN MANOOutput(slf, rot_blob, skinning_blob, betas)
        ELSE [status |-> skinning_blob.status]

(***************************************************************************)
(* __init__                                                                *)
(***************************************************************************)
RotModes == {"axisang", "quat", "pca"}

\* center_idx: Optional[int], the empty set for None
None == {}

\* the registration with the PCA basis kept whenever use_pca is set
RegisteredBuffersAnyMode(a) ==
    LET smpl_data == ready_arguments(a.mano_assets_root, a.side)
        common == [th_betas |-> Tensor([u \in Idx(1) |-> smpl_data.betas]),
                   th_shapedirs |-> smpl_data.shapedirs,
                   th_posedirs |-> smpl_data.posedirs,
                   th_v_template |-> smpl_data.v_template,
                   th_J_regressor |-> smpl_data.J_regressor,
                   th_weights |-> smpl_data.weights,
                   th_faces |-> smpl_data.f]
        hands_mean == IF a.flat_hand_mean
                      THEN Tensor([i \in DOMAIN smpl_data.hands_components[0] |-> 0])
                      ELSE smpl_data.hands_mean
        mean == IF a.rot_mode = "axisang" THEN [th_hands_mean |-> hands_mean] ELSE << >>
        comps == IF a.use_pca
                 THEN [th_selected_comps |-> Tensor([n \in Idx(a.ncomps) |->
                          smpl_data.hands_components[n]])]
                 ELSE << >>
    IN  common @@ mean @@ comps

\* the buffers __init__ registers, lines 70-92
RegisteredBuffers(a) ==
    LET smpl_data == ready_arguments(a.mano_assets_root, a.side)
        common == [th_betas |-> Tensor([u \in Idx(1) |-> smpl_data.betas]),
                   th_shapedirs |-> smpl_data.shapedirs,
                   th_posedirs |-> smpl_data.posedirs,
                   th_v_template |-> smpl_data.v_template,
                   th_J_regressor |-> smpl_data.J_regressor,
                   th_weights |-> smpl_data.weights,
                   th_faces |-> smpl_data.f]
        hands_mean == IF a.flat_hand_mean
                      THEN Tensor([i \in DOMAIN smpl_data.hands_components[0] |-> 0])
                      ELSE smpl_data.hands_mean
        mean == IF a.rot_mode = "axisang" THEN [th_hands_mean |-> hands_mean] ELSE << >>
        comps == IF a.rot_mode = "axisang" /\ a.use_pca
                 THEN [th_selected_comps |-> Tensor([n \in Idx(a.ncomps) |->
                          smpl_data.hands_components[n]])]
                 ELSE << >>
    IN  common @@ mean @@ comps

Attributes(a) ==
    [center_idx |-> a.center_idx, rot_mode |-> a.rot_mode, side |-> a.side,
     use_pca |-> a.use_pca]

\* ManoLayer(rot_mode, side, center_idx, mano_assets_root, use_pca, flat_hand_mean, ncomps)
Construct(Args) ==
    /\ constructed = "none"
    /\ \E a \in Args :
        /\ ctor' = a
        /\ IF a.rot_mode \in {"axisang", "quat"}
           THEN /\ constructed' = "ok"
                /\ self' = Attributes(a)
                           @@ [rot_dim |-> IF a.rot_mode = "axisang" THEN 3 ELSE 4,
                               kintree_parents |->
                                   ready_arguments(a.mano_assets_root, a.side).kintree_table[0]]
                /\ warned' = (a.rot_mode = "quat" /\ (a.use_pca \/ ~a.flat_hand_mean))
                /\ buffers' = RegisteredBuffers(a)
           ELSE \* NotImplementedError, raised before the asset is read
                /\ constructed' = "failed"
                /\ self' = Attributes(a)
                /\ warned' = FALSE
                /\ buffers' = << >>
    /\ UNCHANGED <<pc, args, loc, out, prev_failed>>

(***************************************************************************)
(* forward, a step per section.                                            *)
(***************************************************************************)
Errors == {"RuntimeError", "IndexError"}

Raise(error) ==
    /\ pc' = "idle"
    /\ out' = [status |-> error]
    /\ UNCHANGED <<constructed, ctor, self, buffers, warned, args, loc, prev_failed>>

Goto(label, locals) ==
    /\ pc' = label
    /\ loc' = locals @@ loc
    /\ UNCHANGED <<constructed, ctor, self, buffers, warned, args, out, prev_failed>>

Return(output) ==
    /\ pc' = "idle"
    /\ out' = output
    /\ UNCHANGED <<constructed, ctor, self, buffers, warned, args, loc, prev_failed>>

\* line 261
RotationLayer ==
    /\ pc = "rotation_layer"
    /\ Goto("shape_blend", [rot_blob |-> rotation_layer(buffers, self, args.pose_coeffs)])

\* lines 133-136
ShapeBlendShape ==
    /\ pc = "shape_blend"
    /\ Goto("pose_blend",
            LET B_S == ShapeBlend(buffers, args.betas)
            IN  [B_S |-> B_S, J |-> JointRegress(buffers, B_S)])

\* lines 139-146
PoseBlendShape ==
    /\ pc = "pose_blend"
    /\ Goto("template", [B_P |-> PoseBlend(buffers, loc.rot_blob.full_rots)])

\* line 149
PosedTemplate ==
    /\ pc = "template"
    /\ IF Broadcastable(Size(loc.B_S), Size(loc.B_P))
       THEN Goto("kinematic_chain", [T_P |-> PoseShapeTemplate(buffers, loc.B_S, loc.B_P)])
       ELSE Raise("RuntimeError")

\* lines 153-191
GlobalTransforms ==
    /\ pc = "kinematic_chain"
    /\ IF RootViewOK(loc.rot_blob.full_rots, loc.J)
       THEN Goto("skinning", [th_transf_global |-> KinematicChain(loc.rot_blob.full_rots, loc.J)])
       ELSE Raise("RuntimeError")

\* lines 194-232
BlendSkinning ==
    /\ pc = "skinning"
    /\ Goto("center",
            LET verts == Skin(buffers, loc.th_transf_global, loc.J, loc.T_P)
                native == NativeJoints(self, loc.th_transf_global, verts)
            IN  [verts |-> verts, native_joints |-> native, joints |-> reorder_joints(native)])

\* lines 234-257 and the return of forward, lines 264-273
CenterAndReturn ==
    /\ pc = "center"
    /\ IF CenterIndexError(self, loc.joints)
       THEN Raise("IndexError")
       ELSE Return(MANOOutput(self, loc.rot_blob,
                              Centered(self, loc.verts, loc.joints, loc.th_transf_global),
                              args.betas))

Steps ==
    \/ RotationLayer
    \/ ShapeBlendShape
    \/ PoseBlendShape
    \/ PosedTemplate
    \/ GlobalTransforms
    \/ BlendSkinning
    \/ CenterAndReturn

Init ==
    /\ constructed = "none"
    /\ ctor = << >>
    /\ self = << >>
    /\ buffers = << >>
    /\ warned = FALSE
    /\ pc = "idle"
    /\ args = << >>
    /\ loc = << >>
    /\ out = [status |-> "none"]
    /\ prev_failed = FALSE

(***************************************************************************)
(* The callers' inputs.  A pose turns the root and the three joints of one *)
(* finger; the joints of a level turn about that level's coordinate axis,  *)
(* so that the rotations along a finger do not commute.                    *)
(***************************************************************************)
PoseShapes == [finger : Idx(5), turns : [Idx(4) -> 0..MaxTurn]]

\* the level of joint j (0 the root) and the turns pose shape d gives it
Level(j) == IF j = 0 THEN 0 ELSE ((j - 1) % 3) + 1
Turns(d, j) ==
    IF j = 0 THEN d.turns[0]
    ELSE IF (j - 1) \div 3 = d.finger THEN d.turns[Level(j)] ELSE 0
LevelAxis(l) == (l + 1) % 3

\* the pose vector a caller of this instance passes for pose shape d
PoseCoeffs(bufs, slf, d) ==
    IF slf.rot_mode = "quat"
    THEN Tensor([i \in Idx(4 * NumJoints) |->
            LET t == Turns(d, i \div 4) % 4
                c == i % 4
            IN  IF c = 0 THEN (IF t = 0 THEN 1 ELSE IF t = 2 THEN -1 ELSE 0)
                ELSE IF c - 1 = LevelAxis(Level(i \div 4))
                     THEN (IF t = 1 THEN 1 ELSE IF t = 3 THEN -1 ELSE 0)
                     ELSE 0])
    ELSE IF slf.use_pca
    THEN Tensor([i \in Idx(3 + Size(bufs.th_selected_comps)) |->
            IF i < 3 THEN (IF i = LevelAxis(0) THEN d.turns[0] ELSE 0)
            ELSE d.turns[1 + ((i - 3) % 3)]])
    ELSE Tensor([i \in Idx(3 * NumJoints) |->
            IF i % 3 = LevelAxis(Level(i \div 3)) THEN Turns(d, i \div 3) ELSE 0])

\* the full poses whose every joint is within the range SO3Exp is modelled on
AxisAligned(full_poses) ==
    \A b \in DOMAIN full_poses : \A j \in Idx(NumJoints) :
        InExpDomain(Tensor([c \in Idx(3) |-> full_poses[b][3 * j + c]]))

Modelled(bufs, slf, pose_coeffs) ==
    slf.rot_mode = "axisang" => AxisAligned(FullPoses(bufs, slf, pose_coeffs))

\* the b-th pose of a batch led by pose shape d: the next finger, the turns rolled
Twist(d, b) ==
    [finger |-> (d.finger + b) % 5, turns |-> [l \in Idx(4) |-> d.turns[(l + b) % 4]]]

\* the b-th shape vector of a batch led by beta: the coefficients rolled
Roll(beta, b) == Tensor([s \in DOMAIN beta |-> beta[(s + b) % Size(beta)]])

\* one coefficient of 0 .. MaxBeta, the others zero
BetaVectors ==
    {Tensor([s \in Idx(NumBetas) |-> IF s = n THEN k ELSE 0]) :
        n \in Idx(NumBetas), k \in 0..MaxBeta}

\* forward(pose_coeffs, betas) is entered, with batches of the sizes in Sizes;
\* an instance is called again after a call only if Again
Enter(Shapes, Betas, Sizes, Again) ==
    /\ constructed = "ok"
    /\ pc = "idle"
    /\ Again \/ out.status = "none"
    /\ \E Bp \in Sizes, Bb \in Sizes, d \in Shapes, beta \in Betas :
        args' = [pose_coeffs |->
                     Tensor([b \in Idx(Bp) |-> PoseCoeffs(buffers, self, Twist(d, b))]),
                 betas |-> Tensor([b \in Idx(Bb) |-> Roll(beta, b)])]
    /\ Modelled(buffers, self, args'.pose_coeffs)
    /\ pc' = "rotation_layer"
    /\ loc' = << >>
    /\ out' = [status |-> "pending"]
    /\ prev_failed' = (out.status \in Errors)
    /\ UNCHANGED <<constructed, ctor, self, buffers, warned>>

(***************************************************************************)
(* Spec: the configurations, called again and again with batches of a few  *)
(* inputs.  The center index and the side vary on the default mode, the    *)
(* mode on a right hand without center index.                              *)
(***************************************************************************)
CenterIdxs == {None, {-22}, {-1}, {0}, {20}, {21}}

AllArgs ==
    {a \in [rot_mode : RotModes, side : Sides, center_idx : CenterIdxs,
            mano_assets_root : {"assets/mano"}, use_pca : BOOLEAN,
            flat_hand_mean : BOOLEAN, ncomps : {NumComps}] :
        \/ a.center_idx = None /\ a.side = "right"
        \/ a.rot_mode = "axisang" /\ ~a.use_pca /\ a.flat_hand_mean
           /\ (a.center_idx = None \/ a.side = "right")}

\* the root and the middle joint of a finger turned alike, fully or not at all
FewShapes ==
    {d \in PoseShapes : d.finger = 0 /\ d.turns[2] = d.turns[0]
                        /\ d.turns[0] \in {0, MaxTurn}
                        /\ d.turns[1] = 0 /\ d.turns[3] = 0}
FewBetas ==
    {beta \in BetaVectors : beta[0] \in {0, MaxBeta}
                            /\ \A s \in Idx(NumBetas) : s > 0 => beta[s] = 0}

New == Construct(AllArgs)
Call == Enter(FewShapes, FewBetas, 1..MaxBatch, TRUE)

Next == New \/ Call \/ Steps

Spec == Init /\ [][Next]_vars

(***************************************************************************)
(* SpecChain: no centering, one call of an instance with a single input,   *)
(* every pose that turns the root and the joints of a finger by one amount *)
(* or not at all.                                                          *)
(***************************************************************************)
ChainArgs ==
    [rot_mode : {"axisang"}, side : Sides, center_idx : {None},
     mano_assets_root : {"assets/mano"}, use_pca : {FALSE},
     flat_hand_mean : {TRUE}, ncomps : {NumComps}]

ChainShapes ==
    {d \in PoseShapes : \E t \in 1..MaxTurn : \A l \in Idx(4) : d.turns[l] \in {0, t}}

NewChain == Construct(ChainArgs)
CallChain == Enter(ChainShapes, BetaVectors, {1}, FALSE)

NextChain == NewChain \/ CallChain \/ Steps

SpecChain == Init /\ [][NextChain]_vars

(***************************************************************************)
(* SpecCenter: every center index of the 21 output joints, or none, one    *)
(* call of an instance with a single input.                                *)
(***************************************************************************)
CenterArgs ==
    {a \in [rot_mode : {"axisang"}, side : Sides,
            center_idx : {None} \cup {{c} : c \in Idx(21)},
            mano_assets_root : AssetRoots, use_pca : {FALSE},
            flat_hand_mean : {TRUE}, ncomps : {NumComps}] :
        a.mano_assets_root = "assets/mano" \/ a.center_idx = None}

CenterShapes == {d \in ChainShapes : d.finger = 1 /\ d.turns[0] = d.turns[3]}

NewCenter == Construct(CenterArgs)
CallCenter == Enter(CenterShapes, FewBetas, {1}, FALSE)

NextCenter == NewCenter \/ CallCenter \/ Steps

SpecCenter == Init /\ [][NextCenter]_vars

(***************************************************************************)
(* Properties                                                              *)
(***************************************************************************)
Returned == pc = "idle" /\ out.status = "ok"
Mismatched == Size(args.pose_coeffs) # Size(args.betas)

\* C6: a call whose pose and shape batches differ in size ends in an error and
\* returns no output bundle; the buffers are the ones the constructor
\* registered, whatever calls were made; and a call that returns after a failed
\* one returns what forward computes on the instance as constructed.
C6_MismatchFails ==
    /\ (pc = "idle" /\ out.status \in Errors \cup {"ok"} /\ Mismatched)
            => (out.status \in Errors /\ DOMAIN out = {"status"})
    /\ constructed = "ok" => buffers = RegisteredBuffers(ctor)
    /\ (Returned /\ prev_failed)
            => out = forward(RegisteredBuffers(ctor), self, args.pose_coeffs, args.betas)

\* a call has failed and a later call with matching batches of more than one
\* item has returned
C6_Witness ==
    /\ Returned
    /\ prev_failed
    /\ Size(args.pose_coeffs) > 1
    /\ Size(args.betas) = Size(args.pose_coeffs)

\* C7 as stated: a quaternion instance asked for PCA is never constructed, and
\* an unsupported rotation mode fails with nothing loaded.
C7_QuatPcaRejected ==
    constructed # "none" =>
        /\ (ctor.rot_mode = "quat" /\ ctor.use_pca) => constructed = "failed"
        /\ ctor.rot_mode \notin {"axisang", "quat"}
                => (constructed = "failed" /\ buffers = << >>)

\* C7 amended: construction in quaternion mode with PCA requested succeeds with
\* a warning, the instance keeps use_pca but registers no PCA basis and no mean
\* pose; construction with an unsupported rotation mode fails with nothing
\* loaded or registered.
C7_QuatPcaWarns ==
    constructed # "none" =>
        /\ (ctor.rot_mode = "quat" /\ ctor.use_pca)
                => /\ constructed = "ok"
                   /\ warned
                   /\ self.use_pca
                   /\ self.rot_dim = 4
                   /\ "th_selected_comps" \notin DOMAIN buffers
                   /\ "th_hands_mean" \notin DOMAIN buffers
        /\ ctor.rot_mode \notin {"axisang", "quat"}
                => (constructed = "failed" /\ buffers = << >>)

\* a quaternion instance with use_pca set has returned from forward
C7_Witness == Returned /\ self.rot_mode = "quat" /\ self.use_pca

\* C8 as stated: no constructed instance has a center index outside 0 .. 20.
C8_CenterIdxValidated ==
    constructed = "ok" =>
        \A c \in self.center_idx : 0 <= c /\ c <= 20

\* the batch of the single item b of a batch
Alone(batch, b) == Tensor([u \in Idx(1) |-> batch[b]])

\* C4: every item of a returned batch of two or more has the vertices, joints
\* and absolute transforms that forward returns for that item alone.
C4_BatchInvariance ==
    (Returned /\ Size(args.pose_coeffs) >= 2) =>
        \A b \in DOMAIN args.pose_coeffs :
            LET alone == forward(buffers, self, Alone(args.pose_coeffs, b),
                                 Alone(args.betas, b))
            IN  /\ alone.status = "ok"
                /\ out.verts[b] = alone.verts[0]
                /\ out.joints[b] = alone.joints[0]
                /\ out.transforms_abs[b] = alone.transforms_abs[0]

\* a batch of two has returned whose items differ in pose, root rotation,
\* shape and result
C4_Witness ==
    /\ Returned
    /\ Size(args.pose_coeffs) = 2
    /\ args.pose_coeffs[0] # args.pose_coeffs[1]
    /\ args.betas[0] # args.betas[1]
    /\ loc.rot_blob.full_rots[0][0] # loc.rot_blob.full_rots[1][0]
    /\ out.verts[0] # out.verts[1]

ZeroPose ==
    /\ \A b \in DOMAIN args.pose_coeffs : \A i \in DOMAIN args.pose_coeffs[b] :
            args.pose_coeffs[b][i] = 0
    /\ \A i \in DOMAIN buffers.th_hands_mean : buffers.th_hands_mean[i] = 0
ZeroBetas ==
    \A b \in DOMAIN args.betas : \A n \in DOMAIN args.betas[b] : args.betas[b][n] = 0
IdentityRots ==
    \A b \in DOMAIN loc.rot_blob.full_rots : \A j \in Idx(NumJoints) :
        loc.rot_blob.full_rots[b][j] = eye3
UnitWeights ==
    \A v \in DOMAIN buffers.th_weights :
        SumTo(buffers.th_weights[v], Size(buffers.th_weights[v])) = WeightDen

\* C1: a right hand without center index, whose skinning weights sum to 1 at
\* every vertex, returns for zero shape coefficients and a zero axis-angle pose
\* with flat mean the vertices of v_template, and as its five tip joints
\* v_template at the vertices 745, 317, 444, 556, 673.
C1_RestPose ==
    (Returned /\ self.side = "right" /\ self.center_idx = None /\ self.rot_mode = "axisang"
        /\ ZeroBetas /\ ZeroPose /\ UnitWeights) =>
        \A b \in DOMAIN out.verts :
            /\ out.verts[b] = buffers.th_v_template
            /\ out.joints[b][4] = buffers.th_v_template[745]
            /\ out.joints[b][8] = buffers.th_v_template[317]
            /\ out.joints[b][12] = buffers.th_v_template[444]
            /\ out.joints[b][16] = buffers.th_v_template[556]
            /\ out.joints[b][20] = buffers.th_v_template[673]

\* the rest pose of such a hand has returned, its tips apart from each other
\* and from the left hand's
C1_Witness ==
    /\ Returned /\ self.side = "right" /\ self.center_idx = None
    /\ ZeroBetas /\ ZeroPose /\ UnitWeights /\ IdentityRots
    /\ Cardinality({out.joints[0][4 * i] : i \in 1..5}) = 5
    /\ buffers.th_v_template[444] # buffers.th_v_template[445]

\* C2: when all 16 rotations are the identity, the pose blend shape is zero at
\* every vertex and each of the 16 joints, before the reordering and without
\* centering, is J_regressor applied to v_template + B_S, for every betas.
C2_ZeroPoseIdentity ==
    ("native_joints" \in DOMAIN loc /\ IdentityRots) =>
        \A b \in DOMAIN loc.native_joints :
            /\ \A v \in DOMAIN loc.B_P[b] : loc.B_P[b][v] = Zero3
            /\ \A j \in Idx(NumJoints) : \A c \in Idx(3) :
                loc.native_joints[b][j][c] =
                    SumSet([v \in VertexIds |->
                               buffers.th_J_regressor[j][v]
                               * (buffers.th_v_template[v][c] + loc.B_S[b][v][c])],
                           VertexIds)

\* the identity pose has been skinned for a shape that moves the joints
C2_Witness ==
    /\ "native_joints" \in DOMAIN loc
    /\ IdentityRots
    /\ ~ZeroBetas
    /\ \E v \in VertexIds : loc.B_S[0][v] # Zero3
    /\ loc.J # JointRegress(buffers, ShapeBlend(buffers, [b \in DOMAIN args.betas |->
                    [n \in DOMAIN args.betas[b] |-> 0]]))

\* C3: with a center index c of 0 .. 20 the c-th returned joint is the zero
\* vector and center_joint is the c-th reordered joint before the shift.
C3_CenterRoundTrip ==
    (Returned /\ self.center_idx # None) =>
        \A c \in self.center_idx : (0 <= c /\ c <= 20) =>
            \A b \in DOMAIN out.joints :
                /\ out.joints[b][c] = Zero3
                /\ out.center_joint[b][0] = loc.joints[b][c]

\* a hand has been centered on a joint that was away from the origin and that
\* the reordering moved
C3_Witness ==
    /\ Returned
    /\ \E c \in self.center_idx :
        /\ snap_order[c] # c
        /\ loc.joints[0][c] # Zero3
        /\ loc.joints[0][c] # loc.native_joints[0][c]
    /\ ~IdentityRots

\* the table of C5
T == List(<<0, 13, 14, 15, 16, 1, 2, 3, 17, 4, 5, 6, 18, 10, 11, 12, 19, 7, 8, 9, 20>>)
Bijection(t) == DOMAIN t = Idx(21) /\ {t[i] : i \in DOMAIN t} = Idx(21)

\* C5 as stated: the joint of native slot i is at output position T[i], and T
\* is a bijection over 0 .. 20.
C5_NativeToOutput ==
    "joints" \in DOMAIN loc =>
        /\ \A b \in DOMAIN loc.joints : \A i \in Idx(21) :
                loc.joints[b][T[i]] = loc.native_joints[b][i]
        /\ Bijection(T)

\* C5 amended: the table maps output position to native slot, the joint at
\* output position p is the joint of native slot T[p]; and T is a bijection
\* over 0 .. 20.
C5_OutputFromNative ==
    "joints" \in DOMAIN loc =>
        /\ \A b \in DOMAIN loc.joints : \A p \in Idx(21) :
                loc.joints[b][p] = loc.native_joints[b][T[p]]
        /\ Bijection(T)

\* a hand has been skinned whose 21 native joints are all apart, so that the
\* two readings of the table differ
C5_Witness ==
    /\ "joints" \in DOMAIN loc
    /\ Cardinality({loc.native_joints[0][i] : i \in Idx(21)}) = 21
    /\ loc.joints[0][T[1]] # loc.native_joints[0][1]

parent(j) == IF j \in {1, 4, 7, 10, 13} THEN 0 ELSE j - 1

\* [R | t] over the row 0 0 0 1
Rigid(R, t) ==
    [r \in Idx(4) |-> [c \in Idx(4) |->
        IF r < 3 THEN (IF c < 3 THEN R[r][c] ELSE t[r])
        ELSE (IF c < 3 THEN 0 ELSE 1)]]

\* C9: before centering, the transform of joint 0 is [R_0 | J_0] over 0 0 0 1
\* and the transform of every joint j of 1 .. 15 is the transform of parent(j)
\* times [R_j | J_j - J_parent(j)].
C9_ChainComposition ==
    "th_transf_global" \in DOMAIN loc =>
        \A b \in DOMAIN loc.th_transf_global :
            LET G == loc.th_transf_global[b]
                R == loc.rot_blob.full_rots[b]
                J == loc.J[b]
            IN  /\ G[0] = Rigid(R[0], J[0])
                /\ \A j \in 1..15 :
                    G[j] = matmul(G[parent(j)],
                                  Rigid(R[j], [c \in Idx(3) |-> J[j][c] - J[parent(j)][c]]))

\* the chain of a finger has been composed from a turned root and three turned
\* joints, whose rotations do not commute
C9_Witness ==
    /\ "th_transf_global" \in DOMAIN loc
    /\ \E j \in {3, 6, 9, 12, 15} :
        LET R == loc.rot_blob.full_rots[0]
        IN  /\ \A k \in {0, j - 2, j - 1, j} : R[k] # eye3
            /\ matmul(R[j - 1], R[j]) # matmul(R[j], R[j - 1])
            /\ matmul(R[0], R[j - 2]) # matmul(R[j - 2], R[0])

\* C10: each returned transform has the rotation block of the uncentered one,
\* its translation less center_joint, and the bottom row 0 0 0 1; vertices and
\* joints are shifted by the same center_joint; without center index the
\* center_joint is zero and all three are the uncentered values.
C10_CenterShift ==
    Returned =>
        \A b \in DOMAIN out.verts :
            LET center == out.center_joint[b][0]
            IN  /\ \A j \in Idx(NumJoints) :
                    out.transforms_abs[b][j] =
                        Rigid(loc.th_transf_global[b][j],
                              [r \in Idx(3) |-> loc.th_transf_global[b][j][r][3] - center[r]])
                /\ \A v \in DOMAIN out.verts[b] : \A c \in Idx(3) :
                    out.verts[b][v][c] = loc.verts[b][v][c] - center[c]
                /\ \A n \in Idx(21) : \A c \in Idx(3) :
                    out.joints[b][n][c] = loc.joints[b][n][c] - center[c]
                /\ DOMAIN out.center_joint[b] = {0}
                /\ self.center_idx = None =>
                    /\ center = Zero3
                    /\ out.verts[b] = loc.verts[b]
                    /\ out.joints[b] = loc.joints[b]
                    /\ out.transforms_abs[b] = loc.th_transf_global[b]

\* a posed hand has been shifted by a center joint away from the origin
C10_Witness ==
    /\ Returned
    /\ self.center_idx # None
    /\ out.center_joint[0][0] # Zero3
    /\ ~IdentityRots
    /\ out.transforms_abs[0] # loc.th_transf_global[0]

====
